---- MODULE Spec2Model ----
(***************************************************************************)
(* QueryBuilder (src/core/query_builder.py): a fluent builder over a       *)
(* Django QuerySet with two deferred predicate slots, _q_filters (AND      *)
(* accumulated) and _q_excludes (OR accumulated), applied by build().      *)
(*                                                                         *)
(* A QuerySet is modelled by its membership: the set of primary keys of    *)
(* the rows it selects from one table (Review).  A Q object is modelled    *)
(* as django.utils.tree.Node: a connector and a sequence of children,      *)
(* each child a lookup leaf or a nested node.                              *)
(***************************************************************************)
EXTENDS Integers, Sequences, FiniteSets, TLC

\* ------------------------------------------------------------------
\* Bounds of the model
\* ------------------------------------------------------------------
\* Number of rows of the table the builder queries.
NumReviews == 4
\* Number of lookup leaves a pending Q slot holds at which the chain stops
\* adding to that slot.
MaxPending == 2

\* ------------------------------------------------------------------
\* The table: rows of the Review model used by the examples
\* (fields ratings, is_alert, posting_status).
\* ------------------------------------------------------------------
Pks == 1..NumReviews

\* Column values by primary key (repeated cyclically past their length):
\* row 1 has a low rating only, row 2 is flagged only, row 3 is both,
\* row 4 is neither.
RatingsColumn == <<1, 5, 2, 4, 3, 1, 5, 2>>
IsAlertColumn == <<FALSE, TRUE, TRUE, FALSE, FALSE, TRUE, FALSE, TRUE>>
PostingStatusColumn ==
    <<"published", "published", "draft", "published",
      "draft", "draft", "published", "published">>

Review(pk) ==
    [ratings        |-> RatingsColumn[((pk - 1) % Len(RatingsColumn)) + 1],
     is_alert       |-> IsAlertColumn[((pk - 1) % Len(IsAlertColumn)) + 1],
     posting_status |->
         PostingStatusColumn[((pk - 1) % Len(PostingStatusColumn)) + 1]]

\* The table, by primary key.
Reviews == [pk \in Pks |-> Review(pk)]

\* Field lookups given as keyword criteria.
Lookups == {"ratings__lte=2", "is_alert=True", "posting_status=published"}

\* Field lookups given inside Q objects.
QLookups == {"ratings__lte=2", "is_alert=True"}

\* Whether the row with primary key pk satisfies one lookup.
LookupMatches(lookup, pk) ==
    CASE lookup = "ratings__lte=2"           -> Reviews[pk].ratings <= 2
      [] lookup = "is_alert=True"            -> Reviews[pk].is_alert
      [] lookup = "posting_status=published" ->
             Reviews[pk].posting_status = "published"

\* ------------------------------------------------------------------
\* Q objects (django.db.models.Q, a tree.Node)
\* ------------------------------------------------------------------
\* Q(): default connector AND, no children.
EmptyQ == [connector |-> "AND", children |-> <<>>, lookup |-> ""]

\* A (lookup, value) child of a Q.
Leaf(lookup) == [connector |-> "LEAF", children |-> <<>>, lookup |-> lookup]

\* Q(lookup=value)
Q(lookup) == [connector |-> "AND", children |-> <<Leaf(lookup)>>, lookup |-> ""]

\* bool(q): a Node is truthy iff it has children.
QBool(q) == Len(q.children) > 0

\* Node.add(data, conn_type) on a node whose connector already is conn_type:
\* children of a same-connector or single-child node are spliced in, any
\* other node is appended as one child.
NodeAdd(node, data) ==
    IF data.connector = node.connector \/ Len(data.children) = 1
    THEN [node EXCEPT !.children = @ \o data.children]
    ELSE [node EXCEPT !.children = Append(@, data)]

\* Q._combine(other, conn): an empty operand yields the other operand;
\* otherwise a fresh node of connector conn holding both.
QCombine(self, other, conn) ==
    IF ~QBool(self) THEN other
    ELSE IF ~QBool(other) THEN self
    ELSE NodeAdd(NodeAdd([connector |-> conn, children |-> <<>>, lookup |-> ""],
                         self), other)

\* self & other
QAnd(self, other) == QCombine(self, other, "AND")

\* self | other
QOr(self, other) == QCombine(self, other, "OR")

\* Number of lookup leaves of a Q.
RECURSIVE QSize(_)
QSize(q) ==
    IF q.connector = "LEAF" THEN 1
    ELSE LET Sum[i \in 0..Len(q.children)] ==
                 IF i = 0 THEN 0 ELSE Sum[i - 1] + QSize(q.children[i])
         IN  Sum[Len(q.children)]

\* Whether the row pk satisfies the condition q compiles to (WHERE clause):
\* a leaf is its lookup, AND needs every child, OR needs some child.
RECURSIVE QMatches(_, _)
QMatches(q, pk) ==
    CASE q.connector = "LEAF" -> LookupMatches(q.lookup, pk)
      [] q.connector = "AND"  ->
            \A i \in 1..Len(q.children) : QMatches(q.children[i], pk)
      [] q.connector = "OR"   ->
            \E i \in 1..Len(q.children) : QMatches(q.children[i], pk)

\* ------------------------------------------------------------------
\* QuerySet operations of the ORM, on membership
\* ------------------------------------------------------------------
\* model_class.objects.all()
ObjectsAll == Pks

\* Keyword criteria: every given lookup must hold.
KwargsMatch(kwargs, pk) == \A l \in kwargs : LookupMatches(l, pk)

\* QuerySet.filter(**kwargs)
QuerySetFilter(qs, kwargs) == {pk \in qs : KwargsMatch(kwargs, pk)}

\* QuerySet.exclude(**kwargs); no criteria excludes nothing.
QuerySetExclude(qs, kwargs) ==
    IF kwargs = {} THEN qs ELSE {pk \in qs : ~KwargsMatch(kwargs, pk)}

\* QuerySet.filter(q)
QuerySetFilterQ(qs, q) == {pk \in qs : QMatches(q, pk)}

\* QuerySet.exclude(q)
QuerySetExcludeQ(qs, q) == {pk \in qs : ~QMatches(q, pk)}

Min(S) == CHOOSE x \in S : \A y \in S : x <= y
Max(S) == CHOOSE x \in S : \A y \in S : x >= y

\* Values handed back to the caller.
RetNone == [kind |-> "None"]
RetSelf == [kind |-> "self"]
RetObj(pk) == [kind |-> "object", pk |-> pk]
RetInt(n) == [kind |-> "int", int |-> n]
RetBool(v) == [kind |-> "bool", bool |-> v]
RetQuerySet(qs) == [kind |-> "QuerySet", rows |-> qs]
RetRaise(exc) == [kind |-> "raise", exc |-> exc]

\* QuerySet.get(**kwargs): the single matching row, DoesNotExist when none
\* matches, MultipleObjectsReturned when several do.
QuerySetGet(qs, kwargs) ==
    LET found == QuerySetFilter(qs, kwargs)
    IN  IF found = {} THEN RetRaise("DoesNotExist")
        ELSE IF Cardinality(found) > 1 THEN RetRaise("MultipleObjectsReturned")
        ELSE RetObj(CHOOSE pk \in found : TRUE)

\* QuerySet.first() / last() of an unordered queryset: by primary key,
\* None when there is no row.
QuerySetFirst(qs) == IF qs = {} THEN RetNone ELSE RetObj(Min(qs))
QuerySetLast(qs) == IF qs = {} THEN RetNone ELSE RetObj(Max(qs))

QuerySetCount(qs) == RetInt(Cardinality(qs))
QuerySetExists(qs) == RetBool(qs # {})

\* QuerySet.values(): one dict per row.
QuerySetValues(qs) ==
    [kind |-> "values",
     rows |-> {[pk |-> pk, ratings |-> Reviews[pk].ratings,
                is_alert |-> Reviews[pk].is_alert,
                posting_status |-> Reviews[pk].posting_status] : pk \in qs}]

\* QuerySet.values_list(): one tuple per row.
QuerySetValuesList(qs) ==
    [kind |-> "values_list",
     rows |-> {<<pk, Reviews[pk].ratings, Reviews[pk].is_alert,
                 Reviews[pk].posting_status>> : pk \in qs}]

\* ------------------------------------------------------------------
\* QueryBuilder
\* ------------------------------------------------------------------
\* The optional queryset argument of the constructor.
NoQuerySet == [supplied |-> FALSE, rows |-> {}]
SomeQuerySet(rows) == [supplied |-> TRUE, rows |-> rows]

\* Truth value of the constructor argument in `queryset or ...`: None is
\* false, and a QuerySet is true iff it selects at least one row.
QuerySetArgBool(queryset) == queryset.supplied /\ queryset.rows # {}

\* QueryBuilder.__init__(model_class, queryset=None).  Yields the exception
\* raised ("" when none) and the instance.
BuilderInit(model_class, queryset) ==
    IF QuerySetArgBool(queryset)
    THEN [exc |-> "",
          self |-> [model_class |-> model_class, _queryset |-> queryset.rows,
                    _q_filters |-> EmptyQ, _q_excludes |-> EmptyQ]]
    ELSE IF model_class = "None"
    THEN [exc |-> "AttributeError",
          self |-> [model_class |-> model_class, _queryset |-> {},
                    _q_filters |-> EmptyQ, _q_excludes |-> EmptyQ]]
    ELSE [exc |-> "",
          self |-> [model_class |-> model_class, _queryset |-> ObjectsAll,
                    _q_filters |-> EmptyQ, _q_excludes |-> EmptyQ]]

\* filter(**kwargs)
filter(self, kwargs) ==
    [self EXCEPT !._queryset = QuerySetFilter(@, kwargs)]

\* exclude(**kwargs)
exclude(self, kwargs) ==
    [self EXCEPT !._queryset = QuerySetExclude(@, kwargs)]

\* Faulty q_filter: combines with | where the code has &.
q_filter_or(self, q_obj) ==
    [self EXCEPT !._q_filters = QOr(@, q_obj)]

\* Faulty q_filter: also narrows _queryset at once instead of deferring.
q_filter_eager(self, q_obj) ==
    [self EXCEPT !._q_filters = QAnd(@, q_obj),
                 !._queryset = IF QBool(q_obj) THEN QuerySetFilterQ(@, q_obj) ELSE @]

\* q_filter(q_obj): self._q_filters &= q_obj
q_filter(self, q_obj) ==
    [self EXCEPT !._q_filters = QAnd(@, q_obj)]

\* Faulty q_exclude: combines with & where the code has |.
q_exclude_and(self, q_obj) ==
    [self EXCEPT !._q_excludes = QAnd(@, q_obj)]

\* q_exclude(q_obj): self._q_excludes |= q_obj
q_exclude(self, q_obj) ==
    [self EXCEPT !._q_excludes = QOr(@, q_obj)]

\* The loop of or_filter: or_q = Q(); for q_obj in q_objs: or_q |= q_obj
RECURSIVE OrGroup(_)
OrGroup(q_objs) ==
    IF Len(q_objs) = 0 THEN EmptyQ
    ELSE QOr(OrGroup(SubSeq(q_objs, 1, Len(q_objs) - 1)), q_objs[Len(q_objs)])

\* Faulty loop of or_filter: or_q &= q_obj.
RECURSIVE AndGroup(_)
AndGroup(q_objs) ==
    IF Len(q_objs) = 0 THEN EmptyQ
    ELSE QAnd(AndGroup(SubSeq(q_objs, 1, Len(q_objs) - 1)), q_objs[Len(q_objs)])

\* Faulty or_filter: the group is a conjunction.
or_filter_and_group(self, q_objs) ==
    [self EXCEPT !._q_filters = QAnd(@, AndGroup(q_objs))]

\* Faulty or_filter: the group is an OR node appended to the conjunction
\* without the empty-operand shortcut of &, so a group of no predicates is a
\* disjunction of nothing, which no row satisfies.
or_filter_appends_group(self, q_objs) ==
    [self EXCEPT !._q_filters =
        [connector |-> "AND",
         children |-> (IF @.connector = "AND" THEN @.children ELSE <<@>>)
                          \o << [connector |-> "OR",
                                 children |-> OrGroup(q_objs).children,
                                 lookup |-> ""] >>,
         lookup |-> ""]]

\* or_filter(*q_objs): self._q_filters &= or_q
or_filter(self, q_objs) ==
    [self EXCEPT !._q_filters = QAnd(@, OrGroup(q_objs))]

\* Faulty build: the exclude step is missing.
build_skips_exclude(self) ==
    LET filtered == IF QBool(self._q_filters)
                    THEN QuerySetFilterQ(self._queryset, self._q_filters)
                    ELSE self._queryset
    IN  [self |-> [self EXCEPT !._queryset = filtered], ret |-> filtered]

\* Faulty build: the filter step is missing.
build_skips_filter(self) ==
    LET excluded == IF QBool(self._q_excludes)
                    THEN QuerySetExcludeQ(self._queryset, self._q_excludes)
                    ELSE self._queryset
    IN  [self |-> [self EXCEPT !._queryset = excluded], ret |-> excluded]

\* Faulty build: clears both pending predicates once they are applied.
build_resets_pending(self) ==
    LET filtered == IF QBool(self._q_filters)
                    THEN QuerySetFilterQ(self._queryset, self._q_filters)
                    ELSE self._queryset
        excluded == IF QBool(self._q_excludes)
                    THEN QuerySetExcludeQ(filtered, self._q_excludes)
                    ELSE filtered
    IN  [self |-> [self EXCEPT !._queryset = excluded,
                               !._q_filters = EmptyQ,
                               !._q_excludes = EmptyQ],
         ret |-> excluded]

\* build(): filter by _q_filters when it is truthy, then exclude by
\* _q_excludes when it is truthy; the result is stored in _queryset and
\* returned.  Yields the mutated instance and the returned QuerySet.
build(self) ==
    LET filtered == IF QBool(self._q_filters)
                    THEN QuerySetFilterQ(self._queryset, self._q_filters)
                    ELSE self._queryset
        excluded == IF QBool(self._q_excludes)
                    THEN QuerySetExcludeQ(filtered, self._q_excludes)
                    ELSE filtered
    IN  [self |-> [self EXCEPT !._queryset = excluded], ret |-> excluded]

\* Faulty first: indexes the built QuerySet (self.build()[0]), which raises
\* IndexError when there is no row.
first_by_index(self) ==
    LET b == build(self)
    IN  [self |-> b.self,
         ret |-> IF b.ret = {} THEN RetRaise("IndexError") ELSE RetObj(Min(b.ret))]

\* Terminal operations: build(), then the read on the built QuerySet.
get(self, kwargs) ==
    LET b == build(self) IN [self |-> b.self, ret |-> QuerySetGet(b.ret, kwargs)]
first(self) ==
    LET b == build(self) IN [self |-> b.self, ret |-> QuerySetFirst(b.ret)]
last(self) ==
    LET b == build(self) IN [self |-> b.self, ret |-> QuerySetLast(b.ret)]
count(self) ==
    LET b == build(self) IN [self |-> b.self, ret |-> QuerySetCount(b.ret)]
exists(self) ==
    LET b == build(self) IN [self |-> b.self, ret |-> QuerySetExists(b.ret)]
values(self) ==
    LET b == build(self) IN [self |-> b.self, ret |-> QuerySetValues(b.ret)]
values_list(self) ==
    LET b == build(self) IN [self |-> b.self, ret |-> QuerySetValuesList(b.ret)]

\* ------------------------------------------------------------------
\* State
\* ------------------------------------------------------------------
VARIABLES
    constructed,  \* whether __init__ has returned an instance
    builder,      \* the instance: model_class, _queryset, _q_filters, _q_excludes
    last_call,    \* name of the method called last ("" before any call)
    call_args,    \* the arguments it was called with
    ret           \* what that call returned or raised

vars == <<constructed, builder, last_call, call_args, ret>>

\* Arguments of the constructor.
ModelClasses == {"Review", "None"}

\* Pre-existing collections handed to the constructor: the first n rows of
\* the table, for every n from none to all.
QuerySetArgs == {NoQuerySet} \cup {SomeQuerySet(1..n) : n \in 0..NumReviews}

\* Arguments the chain calls are given.
KwargsArgs == {{}} \cup {{l} : l \in Lookups}
QArgs == {EmptyQ} \cup {Q(l) : l \in QLookups}
QObjsArgs ==
    {<<>>} \cup {<<Q(l)>> : l \in QLookups}
           \cup {<<Q(l), Q(m)>> : l \in QLookups, m \in QLookups}

\* No instance yet.
Unconstructed ==
    [model_class |-> "None", _queryset |-> {},
     _q_filters |-> EmptyQ, _q_excludes |-> EmptyQ]

NoArgs == <<>>

Init ==
    /\ constructed = FALSE
    /\ builder = Unconstructed
    /\ last_call = ""
    /\ call_args = NoArgs
    /\ ret = RetNone

\* QueryBuilder(model_class, queryset)
Construct ==
    /\ ~constructed
    /\ last_call = ""
    /\ \E model_class \in ModelClasses, queryset \in QuerySetArgs :
          LET r == BuilderInit(model_class, queryset)
          IN  /\ constructed' = (r.exc = "")
              /\ builder' = IF r.exc = "" THEN r.self ELSE builder
              /\ ret' = IF r.exc = "" THEN RetSelf ELSE RetRaise(r.exc)
              /\ call_args' = [model_class |-> model_class, queryset |-> queryset]
    /\ last_call' = "__init__"

\* A chain call: mutates the instance and returns it.
Chained(name, args, self) ==
    /\ builder' = self
    /\ last_call' = name
    /\ call_args' = args
    /\ ret' = RetSelf
    /\ UNCHANGED constructed

\* A call that builds and returns a value.
Returned(name, args, r) ==
    /\ builder' = r.self
    /\ last_call' = name
    /\ call_args' = args
    /\ ret' = r.ret
    /\ UNCHANGED constructed

Filter ==
    /\ constructed
    /\ \E kwargs \in KwargsArgs :
          Chained("filter", kwargs, filter(builder, kwargs))

Exclude ==
    /\ constructed
    /\ \E kwargs \in KwargsArgs :
          Chained("exclude", kwargs, exclude(builder, kwargs))

QFilter ==
    /\ constructed
    /\ QSize(builder._q_filters) < MaxPending
    /\ \E q_obj \in QArgs : Chained("q_filter", q_obj, q_filter(builder, q_obj))

QExclude ==
    /\ constructed
    /\ QSize(builder._q_excludes) < MaxPending
    /\ \E q_obj \in QArgs : Chained("q_exclude", q_obj, q_exclude(builder, q_obj))

OrFilter ==
    /\ constructed
    /\ QSize(builder._q_filters) < MaxPending
    /\ \E q_objs \in QObjsArgs :
          Chained("or_filter", q_objs, or_filter(builder, q_objs))

Build ==
    /\ constructed
    /\ LET b == build(builder)
       IN  Returned("build", NoArgs, [self |-> b.self, ret |-> RetQuerySet(b.ret)])

Get ==
    /\ constructed
    /\ \E kwargs \in KwargsArgs : Returned("get", kwargs, get(builder, kwargs))

First == constructed /\ Returned("first", NoArgs, first(builder))

Last == constructed /\ Returned("last", NoArgs, last(builder))

Count == constructed /\ Returned("count", NoArgs, count(builder))

Exists == constructed /\ Returned("exists", NoArgs, exists(builder))

Values == constructed /\ Returned("values", NoArgs, values(builder))

ValuesList == constructed /\ Returned("values_list", NoArgs, values_list(builder))

Next ==
    \/ Construct
    \/ Filter
    \/ Exclude
    \/ QFilter
    \/ QExclude
    \/ OrFilter
    \/ Build
    \/ Get
    \/ First
    \/ Last
    \/ Count
    \/ Exists
    \/ Values
    \/ ValuesList

Spec == Init /\ [][Next]_vars

\* ------------------------------------------------------------------
\* Vocabulary of the properties: membership by set algebra
\* ------------------------------------------------------------------
\* Rows of the table that satisfy one lookup.
LookupRows == [l \in Lookups |-> {pk \in Pks : LookupMatches(l, pk)}]

\* Rows of the table that satisfy a predicate, by set algebra over the
\* rows satisfying its lookups: AND is intersection, OR is union.
RECURSIVE Rows(_)
Rows(q) ==
    LET n == Len(q.children)
        All[i \in 0..n] ==
            IF i = 0 THEN Pks ELSE All[i - 1] \cap Rows(q.children[i])
        Some[i \in 0..n] ==
            IF i = 0 THEN {} ELSE Some[i - 1] \cup Rows(q.children[i])
    IN  CASE q.connector = "LEAF" -> LookupRows[q.lookup]
          [] q.connector = "AND"  -> All[n]
          [] q.connector = "OR"   -> Some[n]

\* What an accumulated AND-predicate keeps: everything when it is the identity.
Kept(A) == IF A = EmptyQ THEN Pks ELSE Rows(A)

\* What an accumulated OR-exclude predicate removes: nothing when it is the
\* identity.
Removed(O) == IF O = EmptyQ THEN {} ELSE Rows(O)

AndThenExclude(C, A, O) == (C \cap Kept(A)) \ Removed(O)
ExcludeThenAnd(C, A, O) == (C \ Removed(O)) \cap Kept(A)

\* Predicates the properties quantify over.
Predicates ==
    {Q(l) : l \in QLookups}
        \cup {QOr(Q("ratings__lte=2"), Q("is_alert=True"))}

\* The rows each of them selects.
PredicateRows == [p \in Predicates |-> Rows(p)]

\* ------------------------------------------------------------------
\* Properties
\* ------------------------------------------------------------------
\* C1: in every reachable builder state, with base collection C =
\* _queryset, accumulated AND-predicate A = _q_filters and accumulated
\* OR-exclude predicate O = _q_excludes, build() returns exactly
\* (C \cap A) \ O; an empty A keeps everything and an empty O removes nothing.
C1_BuildIsAndThenExclude ==
    constructed =>
        build(builder).ret =
            AndThenExclude(builder._queryset, builder._q_filters,
                           builder._q_excludes)

\* C1 witness: a build over rows {1,2,3,4} narrowed by ratings__lte=2 and
\* with is_alert=True excluded has returned row 1 alone.
C1_Witness ==
    /\ last_call = "build"
    /\ builder._q_filters = Q("ratings__lte=2")
    /\ builder._q_excludes = Q("is_alert=True")
    /\ ret = RetQuerySet({1})

\* C2: from every reachable builder state and for all predicates P, R,
\* q_filter(P).q_filter(R).build(), q_filter(P & R).build() and
\* q_filter(R).q_filter(P).build() return the same membership: the rows
\* build() would have returned that satisfy both P and R.
C2_AndAccumulation ==
    constructed =>
        LET unnarrowed == build(builder).ret
        IN  \A P \in Predicates, R \in Predicates :
                LET pr == build(q_filter(q_filter(builder, P), R)).ret
                IN  /\ pr = unnarrowed \cap PredicateRows[P] \cap PredicateRows[R]
                    /\ build(q_filter(builder, QAnd(P, R))).ret = pr
                    /\ build(q_filter(q_filter(builder, R), P)).ret = pr

\* C2 witness: after q_filter of two different lookups, build() has
\* returned the one row that satisfies both.
C2_Witness ==
    /\ last_call = "build"
    /\ builder._q_filters.connector = "AND"
    /\ Len(builder._q_filters.children) = 2
    /\ builder._q_filters.children[1] # builder._q_filters.children[2]
    /\ \A i \in 1..2 : builder._q_filters.children[i].connector = "LEAF"
    /\ builder._q_excludes = EmptyQ
    /\ ret = RetQuerySet({3})

\* C3: for all predicates P, R, q_exclude(P).q_exclude(R).build() removes
\* exactly the rows matching P or R from what build() would have returned;
\* on a builder with nothing pending that is the base collection itself.
C3_ExcludeUnion ==
    constructed =>
        LET unnarrowed == build(builder).ret
            nothing_pending ==
                builder._q_filters = EmptyQ /\ builder._q_excludes = EmptyQ
        IN  \A P \in Predicates, R \in Predicates :
                LET r == build(q_exclude(q_exclude(builder, P), R)).ret
                    matching == PredicateRows[P] \cup PredicateRows[R]
                IN  /\ r = unnarrowed \ matching
                    /\ nothing_pending => r = builder._queryset \ matching

\* C3 witness: with ratings__lte=2 and is_alert=True both excluded and no
\* AND-predicate pending, build() has returned row 4, the only row that
\* matches neither.
C3_Witness ==
    /\ last_call = "build"
    /\ builder._q_filters = EmptyQ
    /\ builder._q_excludes.connector = "OR"
    /\ Len(builder._q_excludes.children) = 2
    /\ builder._q_excludes.children[1] # builder._q_excludes.children[2]
    /\ ret = RetQuerySet({4})

\* C4: from every reachable builder state and for all predicates A, B,
\* or_filter(A, B).build() returns the same membership as
\* q_filter(A | B).build(): the rows build() would have returned that
\* satisfy A or B.
C4_OrFilterIsQFilterOfOr ==
    constructed =>
        LET unnarrowed == build(builder).ret
        IN  \A A \in Predicates, B \in Predicates :
                LET r == build(or_filter(builder, <<A, B>>)).ret
                IN  /\ r = unnarrowed \cap (PredicateRows[A] \cup PredicateRows[B])
                    /\ build(q_filter(builder, QOr(A, B))).ret = r

\* C4 witness: an OR-group of two lookups was conjoined with an AND-predicate
\* accumulated before it, and build() has returned the rows with a low rating
\* that are also low-rated or flagged.
C4_Witness ==
    /\ last_call = "build"
    /\ builder._q_filters.connector = "AND"
    /\ Len(builder._q_filters.children) = 2
    /\ builder._q_filters.children[1] = Leaf("ratings__lte=2")
    /\ builder._q_filters.children[2].connector = "OR"
    /\ Len(builder._q_filters.children[2].children) = 2
    /\ ret = RetQuerySet({1, 3})

\* C5: every q_filter, q_exclude and or_filter step leaves the base
\* collection _queryset (and model_class) as it was and changes no pending
\* slot but its own: _q_filters for q_filter and or_filter, _q_excludes for
\* q_exclude.
C5_DeferredCallsKeepBase ==
    [][/\ last_call' \in {"q_filter", "q_exclude", "or_filter"} =>
            /\ builder'._queryset = builder._queryset
            /\ builder'.model_class = builder.model_class
       /\ last_call' \in {"q_filter", "or_filter"} =>
            builder'._q_excludes = builder._q_excludes
       /\ last_call' = "q_exclude" =>
            builder'._q_filters = builder._q_filters]_vars

\* C5 witness: q_filter(Q(ratings__lte=2)) has just returned, the predicate
\* is pending, and the base collection still holds a row that does not
\* satisfy it.
C5_Witness ==
    /\ last_call = "q_filter"
    /\ call_args = Q("ratings__lte=2")
    /\ builder._q_filters = Q("ratings__lte=2")
    /\ \E pk \in builder._queryset : ~LookupMatches("ratings__lte=2", pk)

\* C6: after construction the base collection is the supplied collection
\* whenever one was supplied, an empty one included, and all rows of the
\* model only when none was supplied; both pending predicates are empty.
C6_ConstructionKeepsSuppliedCollection ==
    (last_call = "__init__" /\ constructed) =>
        /\ builder._queryset =
               IF call_args.queryset.supplied
               THEN call_args.queryset.rows
               ELSE ObjectsAll
        /\ builder._q_filters = EmptyQ
        /\ builder._q_excludes = EmptyQ

\* C7: constructing with model_class None fails with ConfigurationError and
\* yields no builder, whether or not a collection is supplied.
C7_NoModelClassIsConfigurationError ==
    (last_call = "__init__" /\ call_args.model_class = "None") =>
        /\ ~constructed
        /\ ret = RetRaise("ConfigurationError")

\* C8 as claimed: once the resolved set is empty, count returns 0, exists
\* returns False, and first and get return None instead of raising.
C8_NoTerminalRaisesOnEmpty ==
    (constructed /\ builder._queryset = {}) =>
        /\ last_call = "count" => ret = RetInt(0)
        /\ last_call = "exists" => ret = RetBool(FALSE)
        /\ last_call = "first" => ret = RetNone
        /\ last_call = "get" => ret = RetNone

\* C8 amended: when the resolved set is empty, count returns 0, exists
\* returns False, first and last return None, and get raises DoesNotExist
\* whatever criteria it is given.
C8_EmptyResolvedSet ==
    (constructed /\ build(builder).ret = {}) =>
        /\ count(builder).ret = RetInt(0)
        /\ exists(builder).ret = RetBool(FALSE)
        /\ first(builder).ret = RetNone
        /\ last(builder).ret = RetNone
        /\ \A kwargs \in KwargsArgs :
               get(builder, kwargs).ret = RetRaise("DoesNotExist")

\* C8 witness: get() has raised DoesNotExist on a builder whose pending
\* AND-predicate resolved the base collection to nothing.
C8_Witness ==
    /\ last_call = "get"
    /\ call_args = {}
    /\ ret = RetRaise("DoesNotExist")
    /\ builder._queryset = {}
    /\ builder._q_filters # EmptyQ

\* C9 as claimed: where build() has applied both a pending AND-predicate and
\* a pending OR-exclude predicate, there are a base collection C and
\* predicates A, O for which (C \cap A) \ O and (C \ O) \cap A differ.
C9_OrderObservable ==
    (last_call = "build" /\ builder._q_filters # EmptyQ
                         /\ builder._q_excludes # EmptyQ) =>
        \E C \in SUBSET Pks, A \in Predicates, O \in Predicates :
            AndThenExclude(C, A, O) # ExcludeThenAnd(C, A, O)

\* C9 amended: build() returns (C \cap A) \ O, and that is in every case the
\* same membership as (C \ O) \cap A: narrowing first or excluding first
\* cannot be told apart by membership.
C9_OrderNotObservable ==
    constructed =>
        build(builder).ret =
            ExcludeThenAnd(builder._queryset, builder._q_filters,
                           builder._q_excludes)

\* C9 witness: build() has run with overlapping predicates pending (row 3
\* satisfies both the AND-predicate and the OR-exclude predicate) and has
\* returned row 1.
C9_Witness ==
    /\ last_call = "build"
    /\ builder._q_filters # EmptyQ
    /\ builder._q_excludes # EmptyQ
    /\ 3 \in Rows(builder._q_filters) \cap Rows(builder._q_excludes)
    /\ ret = RetQuerySet({1})

\* C10: build() keeps both pending predicates and stores what it returns in
\* _queryset; every terminal call leaves the builder exactly as build() does;
\* a build() after that applies the same pending predicates to the collection
\* the first one narrowed, and one after further q_filter / q_exclude calls
\* applies the old and the new predicates to it.
C10_BuildKeepsPendingAndStoresResult ==
    constructed =>
        LET b == build(builder)
            A == builder._q_filters
            O == builder._q_excludes
            narrowed == AndThenExclude(builder._queryset, A, O)
        IN  /\ b.self._q_filters = A
            /\ b.self._q_excludes = O
            /\ b.self._queryset = narrowed
            /\ b.ret = narrowed
            /\ first(builder).self = b.self
            /\ last(builder).self = b.self
            /\ count(builder).self = b.self
            /\ exists(builder).self = b.self
            /\ values(builder).self = b.self
            /\ values_list(builder).self = b.self
            /\ \A kwargs \in KwargsArgs : get(builder, kwargs).self = b.self
            /\ build(b.self).ret = AndThenExclude(narrowed, A, O)
            /\ \A P \in Predicates :
                   /\ build(q_filter(b.self, P)).ret =
                          AndThenExclude(narrowed, QAnd(A, P), O)
                   /\ build(q_exclude(b.self, P)).ret =
                          AndThenExclude(narrowed, A, QOr(O, P))

\* C10 witness: count() has run on a builder with both predicates pending;
\* the predicates are still pending and _queryset is the narrowed
\* collection it counted.
C10_Witness ==
    /\ last_call = "count"
    /\ builder._q_filters # EmptyQ
    /\ builder._q_excludes # EmptyQ
    /\ builder._queryset # {}
    /\ builder._queryset # Pks
    /\ ret = RetInt(Cardinality(builder._queryset))

\* C11: from every reachable builder state, or_filter() with no predicates
\* returns the builder exactly as it was (pending AND-predicate, pending
\* OR-exclude predicate, base collection and model class), so the build()
\* that follows returns what build() would have returned without it.
C11_EmptyOrFilterIsNoOp ==
    constructed =>
        LET after == or_filter(builder, <<>>)
        IN  /\ after._q_filters = builder._q_filters
            /\ after._q_excludes = builder._q_excludes
            /\ after._queryset = builder._queryset
            /\ after.model_class = builder.model_class
            /\ build(after).ret = build(builder).ret
            /\ build(after).ret =
                   AndThenExclude(builder._queryset, builder._q_filters,
                                  builder._q_excludes)

\* C11 witness: or_filter() with no predicates has just returned on a builder
\* with ratings__lte=2 pending and a base collection that holds rows with a
\* low rating: the pending predicate is as before and build() would still
\* return those rows, not nothing.
C11_Witness ==
    /\ last_call = "or_filter"
    /\ call_args = <<>>
    /\ builder._q_filters = Q("ratings__lte=2")
    /\ build(builder).ret = {1, 3}

====
